---- MODULE Spec2Model ----
(***************************************************************************)
(* Model of the recursive copy engine of @kogs/utils: copy (asynchronous)  *)
(* and copySync (blocking).  The filesystem is a finite tree of nodes; one *)
(* step of the model is one filesystem call of the code (every await of    *)
(* copy is a suspension point).  Each behaviour runs copy on an initial    *)
(* filesystem and then copySync with the same arguments on the same        *)
(* initial filesystem, so that the two can be compared.                    *)
(***************************************************************************)
EXTENDS Integers, Sequences, FiniteSets, TLC

\* ---------------------------------------------------------------- bounds
MaxDepth == 2       \* entries nest at most this deep below a root
MaxNodes == 5       \* nodes that exist in the initial filesystem
MaxStreams == 2     \* input streams of a call of mergeStreams
MaxChunks == 2      \* chunks an input stream emits before it ends

\* the contents a file can have (two files hold the same bytes or not) and
\* the modification times of the initial filesystem (older, equal, newer)
Contents == {1, 2}
Times    == {1, 2}

Names     == {"a", "b"}
SrcRoot   == <<"s">>
DestRoot  == <<"d">>

RECURSIVE PathsOfLen(_)
PathsOfLen(n) ==
    IF n = 1 THEN {SrcRoot, DestRoot}
    ELSE {Append(p, x) : p \in PathsOfLen(n - 1), x \in Names}

Paths == UNION {PathsOfLen(n) : n \in 1..(MaxDepth + 1)}

\* path.dirname / path.join on the modelled paths
Parent(p)   == SubSeq(p, 1, Len(p) - 1)
Join(p, x)  == Append(p, x)
IsRoot(p)   == Len(p) = 1
IsUnder(q, p) == Len(q) >= Len(p) /\ SubSeq(q, 1, Len(p)) = p

\* ---------------------------------------------------------------- nodes
Absent      == [kind |-> "absent", data |-> 0, mtime |-> 0]
File(d, t)  == [kind |-> "file", data |-> d, mtime |-> t]
Dir(t)      == [kind |-> "dir", data |-> 0, mtime |-> t]

\* the time the filesystem stamps on a node that is written during the call
Now == (CHOOSE t \in Times : \A u \in Times : u <= t) + 1

\* The nodes of the initial filesystem.  The two paths handed to the call
\* carry every content and every time; the entries below them carry every
\* content and one common time.
RootNodes ==
    {File(d, t) : d \in Contents, t \in Times} \cup {Dir(t) : t \in Times}

NestedNodes == {File(d, 1) : d \in Contents} \cup {Dir(1)}

InitialNodes(p) == IF IsRoot(p) THEN RootNodes ELSE NestedNodes

EmptyFs == [p \in Paths |-> Absent]

NodeCount(f) == Cardinality({p \in Paths : f[p].kind # "absent"})

\* the paths, parents before children
RECURSIVE SeqOf(_)
SeqOf(S) ==
    IF S = {} THEN <<>>
    ELSE LET x == CHOOSE y \in S : TRUE IN <<x>> \o SeqOf(S \ {x})

RECURSIVE PathsUpTo(_)
PathsUpTo(n) ==
    IF n = 0 THEN <<>> ELSE PathsUpTo(n - 1) \o SeqOf(PathsOfLen(n))

PathOrder == PathsUpTo(MaxDepth + 1)

\* a node can be created at p when the directory that is to hold it exists
\* (the two roots hang off the working directory, which exists)
CanHold(f, p) ==
    /\ NodeCount(f) < MaxNodes
    /\ (IsRoot(p) \/ f[Parent(p)].kind = "dir")

\* the filesystems S, each also with every node that can be at PathOrder[i],
\* and so on for the paths after it
RECURSIVE Populate(_, _)
Populate(S, i) ==
    IF i > Len(PathOrder) THEN S
    ELSE LET p == PathOrder[i]
         IN  Populate(S \cup {[f EXCEPT ![p] = n] :
                                 f \in {g \in S : CanHold(g, p)},
                                 n \in InitialNodes(p)},
                      i + 1)

\* every well-formed filesystem with at most MaxNodes nodes
FileSystems == Populate({EmptyFs}, 1)

\* the values of options.overwrite; "none" is a call without options
Policies == {"always", "never", "newer", "true", "false", "none"}

\* ---------------------------------------------------------------- state
VARIABLES
    fs,        \* the filesystem: Paths -> node
    fs0,       \* the filesystem when copy / copySync was called
    faulty,    \* paths whose inspection fails for a reason other than absence
    args,      \* the arguments of the top-level call
    run,       \* "none", "copy" or "copySync"
    status,    \* "idle", "running", "ok" (returned) or "error" (threw)
    stack,     \* call frames of the recursion, innermost first
    resCopy,   \* outcome and final filesystem of the copy run
    entries,   \* collectFiles: the array of paths collected
    pending,   \* mergeStreams: what each input stream has yet to emit
    merged,    \* mergeStreams: the stream returned, written so far
    ended      \* mergeStreams: the count of inputs read to their end

\* the state of collectFiles and mergeStreams, which copy leaves alone
others == <<entries, pending, merged, ended>>

vars == <<fs, fs0, faulty, args, run, status, stack, resCopy, others>>

NoArgs   == [src |-> <<>>, dest |-> <<>>, overwrite |-> "none"]
NoResult == [status |-> "idle", fs |-> EmptyFs]

\* new stream.PassThrough(): nothing written, not ended
NewStream == [chunks |-> <<>>, ended |-> FALSE]

Idle ==
    /\ entries = <<>>
    /\ pending = <<>>
    /\ merged = NewStream
    /\ ended = 0

Init ==
    /\ fs \in FileSystems
    /\ fs0 = fs
    /\ faulty = {}
    /\ args = NoArgs
    /\ run = "none"
    /\ status = "idle"
    /\ stack = <<>>
    /\ resCopy = NoResult
    /\ Idle

\* ------------------------------------------------ filesystem primitives
\* (node:fs as the code uses it; the promise and the blocking form of a
\* call have the same effect on the filesystem)

Node(f, p) == IF p \in Paths THEN f[p] ELSE Absent

\* creating or deleting an entry stamps the directory that holds it
Touch(f, p) ==
    IF IsRoot(p) \/ f[Parent(p)].kind # "dir" THEN f
    ELSE [f EXCEPT ![Parent(p)].mtime = Now]

\* fs.copyFile(src, dest): fails unless src is a file, dest is not a
\* directory and the directory that is to hold dest exists
CopyFileOk(f, src, dest) ==
    /\ Node(f, src).kind = "file"
    /\ dest \in Paths
    /\ f[dest].kind # "dir"
    /\ (IsRoot(dest) \/ f[Parent(dest)].kind = "dir")

CopyFileTo(f, src, dest) ==
    LET g == [f EXCEPT ![dest] = File(f[src].data, Now)]
    IN  IF f[dest].kind = "absent" THEN Touch(g, dest) ELSE g

\* fs.unlink(dest): removes a file
UnlinkOk(f, p) == Node(f, p).kind = "file"
Unlink(f, p)   == Touch([f EXCEPT ![p] = Absent], p)

\* fs.rm(dest, { recursive: true }) removes the tree bottom-up, one entry
\* at a time; an entry can go once nothing is left below it
RmCandidates(f, p) ==
    {q \in Paths : /\ IsUnder(q, p)
                   /\ f[q].kind # "absent"
                   /\ \A x \in Names : Node(f, Join(q, x)).kind = "absent"}

RmEntry(f, q) == Touch([f EXCEPT ![q] = Absent], q)

\* fs.mkdir(dest, { recursive: true }): creates dest and its missing
\* ancestors, succeeds on an existing directory, fails on a file in the way
Ancestors(p) == {SubSeq(p, 1, n) : n \in 1..Len(p)}

MkdirOk(f, p) ==
    /\ p \in Paths
    /\ \A q \in Ancestors(p) : f[q].kind # "file"

Mkdir(f, p) ==
    [q \in Paths |->
        IF q \in Ancestors(p) /\ f[q].kind = "absent" THEN Dir(Now)
        ELSE IF /\ f[q].kind = "dir"
                /\ \E c \in Ancestors(p) :
                      c # q /\ Parent(c) = q /\ f[c].kind = "absent"
             THEN [f[q] EXCEPT !.mtime = Now]
             ELSE f[q]]

\* the order in which the filesystem lists names: one order, not known
Orders ==
    {o \in [1..Cardinality(Names) -> Names] :
        \A x \in Names : \E i \in DOMAIN o : o[i] = x}

ListingOrder == CHOOSE o \in Orders : TRUE

\* fs.readdir(src): the names of the entries of a directory, as listed
Readdir(f, p) ==
    SelectSeq(ListingOrder, LAMBDA x : Node(f, Join(p, x)).kind # "absent")

\* the inspection reports an absent path as "no entry" instead of failing
StatFails_AbsentIsNoEntry(f, p) == p \in faulty

\* fs.stat(p) fails when p is absent or cannot be inspected
StatFails(f, p) == p \in faulty \/ Node(f, p).kind = "absent"

\* ------------------------------------------------ copy: the pure parts

\* copy, line 22: fs.promises.stat(dest).catch(() => null) turns every
\* failure of the inspection into "no destination" (Absent stands for null)
copy_destStat(f, p) == IF StatFails(f, p) THEN Absent ELSE f[p]

\* copySync, line 69: fs.statSync(dest, { throwIfNoEntry: false }) gives
\* undefined for an absent path only; any other failure is thrown
copySync_destThrows(f, p) == p \in faulty
copySync_destStat(f, p)   == Node(f, p)

\* the flag is set for 'always' only, not for true
Overwrite_AlwaysOnly(opt, srcStat, destStat) ==
    \/ opt = "always"
    \/ /\ opt = "newer"
       /\ destStat.kind # "absent"
       /\ srcStat.mtime > destStat.mtime

\* a call without options overwrites
Overwrite_DefaultTrue(opt, srcStat, destStat) ==
    \/ opt \in {"always", "true", "none"}
    \/ /\ opt = "newer"
       /\ destStat.kind # "absent"
       /\ srcStat.mtime > destStat.mtime

\* 'newer' compares with >= instead of >
Overwrite_NewerOrEqual(opt, srcStat, destStat) ==
    \/ opt = "always"
    \/ opt = "true"
    \/ /\ opt = "newer"
       /\ destStat.kind # "absent"
       /\ srcStat.mtime >= destStat.mtime

\* lines 24-28: the overwrite flag of one invocation
Overwrite(opt, srcStat, destStat) ==
    \/ opt = "always"
    \/ opt = "true"
    \/ /\ opt = "newer"
       /\ destStat.kind # "absent"
       /\ srcStat.mtime > destStat.mtime

\* the test of line 33 is missing: a file is copied only when the flag is set
Branch_SkipsAbsent(srcStat, destStat, overwrite) ==
    IF srcStat.kind = "file"
    THEN IF overwrite
         THEN IF destStat.kind = "dir" THEN "rm" ELSE "copyFile"
         ELSE "return"
    ELSE IF srcStat.kind = "dir"
         THEN IF destStat.kind = "file"
              THEN IF overwrite THEN "unlink" ELSE "return"
              ELSE "mkdir"
         ELSE "return"

\* line 46 tests destStat instead of destStat?.isFile(): an existing
\* directory at dest is skipped when the flag is not set
Branch_SkipsDirectory(srcStat, destStat, overwrite) ==
    IF srcStat.kind = "file"
    THEN IF destStat.kind # "absent"
         THEN IF overwrite
              THEN IF destStat.kind = "dir" THEN "rm" ELSE "copyFile"
              ELSE "return"
         ELSE "copyFile"
    ELSE IF srcStat.kind = "dir"
         THEN IF destStat.kind # "absent"
              THEN IF overwrite
                   THEN IF destStat.kind = "file" THEN "unlink" ELSE "mkdir"
                   ELSE "return"
              ELSE "mkdir"
         ELSE "return"

\* lines 30-51: the first call that changes the filesystem, given the two
\* stats ("return": none, the invocation returns)
Branch(srcStat, destStat, overwrite) ==
    IF srcStat.kind = "file"
    THEN IF destStat.kind # "absent"
         THEN IF overwrite
              THEN IF destStat.kind = "dir" THEN "rm" ELSE "copyFile"
              ELSE "return"
         ELSE "copyFile"
    ELSE IF srcStat.kind = "dir"
         THEN IF destStat.kind = "file"
              THEN IF overwrite THEN "unlink" ELSE "return"
              ELSE "mkdir"
         ELSE "return"

\* line 57: the recursive call passes no options argument
ChildOptions(opt) == "none"

\* ------------------------------------------------ copy (asynchronous)
\* One step of copy is one call that changes the filesystem, together with
\* the inspections and the control flow that lead to the next such call.
\* A frame is an invocation of copy that is waiting for a filesystem call
\* (pc names it) or, at "loop", for the recursive call of an entry.
Frame(src, dest, opt, pc, destStat) ==
    [src |-> src, dest |-> dest, overwrite |-> opt, pc |-> pc,
     destStat |-> destStat, files |-> <<>>]

Top == Head(stack)
Running == status = "running" /\ stack # <<>>

\* lines 56-58: an invocation whose loop has no entry left returns, and so
\* may the invocation that was waiting for it
RECURSIVE Unwind(_)
Unwind(stk) ==
    IF stk = <<>> THEN <<>>
    ELSE IF Head(stk).pc = "loop" /\ Head(stk).files = <<>>
         THEN Unwind(Tail(stk))
         ELSE stk

\* control is back in the frames stk: the call is over when none is left
ReturnTo(stk) ==
    /\ stack' = Unwind(stk)
    /\ status' = IF Unwind(stk) = <<>> THEN "ok" ELSE "running"

\* a filesystem call fails: nothing catches it, the top-level call fails
Throw ==
    /\ stack' = <<>>
    /\ status' = "error"

Goto(fr) ==
    /\ stack' = <<fr>> \o Tail(stack)
    /\ status' = "running"

\* lines 20-51: an invocation starts, with the frames rest waiting for it:
\* both inspections, the overwrite flag and the branch taken, up to the
\* first call that changes the filesystem
Enter(src, dest, opt, rest) ==
    LET srcStat  == Node(fs, src)
        destStat == copy_destStat(fs, dest)
        next     == Branch(srcStat, destStat,
                           Overwrite(opt, srcStat, destStat))
    IN  IF StatFails(fs, src)
        THEN Throw
        ELSE IF next = "return"
             THEN ReturnTo(rest)
             ELSE /\ stack' = <<Frame(src, dest, opt, next, destStat)>>
                              \o rest
                  /\ status' = "running"

\* the caller invokes copy(src, dest, options) on the current filesystem
Call ==
    /\ run = "none"
    /\ \E o \in Policies :
          /\ args' = [src |-> SrcRoot, dest |-> DestRoot, overwrite |-> o]
          /\ Enter(SrcRoot, DestRoot, o, <<>>)
    /\ run' = "copy"
    /\ UNCHANGED <<fs, fs0, faulty, resCopy, others>>

\* the removal is not awaited: line 42 runs once the removal has started
copy_Rm_NotAwaited ==
    /\ run = "copy" /\ Running
    /\ Top.pc = "rm"
    /\ \E q \in RmCandidates(fs, Top.dest) :
          /\ fs' = RmEntry(fs, q)
          /\ Goto([Top EXCEPT !.pc = "copyFile"])
    /\ UNCHANGED <<fs0, faulty, args, run, resCopy, others>>

\* lines 35-36: the recursive removal of the directory at dest, which the
\* invocation waits for before it goes on to line 42
copy_Rm ==
    /\ run = "copy" /\ Running
    /\ Top.pc = "rm"
    /\ \E q \in RmCandidates(fs, Top.dest) :
          /\ fs' = RmEntry(fs, q)
          /\ Goto([Top EXCEPT !.pc = IF q = Top.dest THEN "copyFile"
                                                     ELSE "rm"])
    /\ UNCHANGED <<fs0, faulty, args, run, resCopy, others>>

\* line 42: the copy of the file, after which the invocation returns
copy_CopyFile ==
    /\ run = "copy" /\ Running
    /\ Top.pc = "copyFile"
    /\ IF CopyFileOk(fs, Top.src, Top.dest)
       THEN fs' = CopyFileTo(fs, Top.src, Top.dest) /\ ReturnTo(Tail(stack))
       ELSE fs' = fs /\ Throw
    /\ UNCHANGED <<fs0, faulty, args, run, resCopy, others>>

\* lines 47-48: the file at dest is deleted to make room for the directory
copy_Unlink ==
    /\ run = "copy" /\ Running
    /\ Top.pc = "unlink"
    /\ IF UnlinkOk(fs, Top.dest)
       THEN fs' = Unlink(fs, Top.dest) /\ Goto([Top EXCEPT !.pc = "mkdir"])
       ELSE fs' = fs /\ Throw
    /\ UNCHANGED <<fs0, faulty, args, run, resCopy, others>>

\* lines 53-55: the directory at dest is made, the entries of src are read
copy_Mkdir ==
    /\ run = "copy" /\ Running
    /\ Top.pc = "mkdir"
    /\ IF MkdirOk(fs, Top.dest)
       THEN /\ fs' = Mkdir(fs, Top.dest)
            /\ ReturnTo(<<[Top EXCEPT !.pc = "loop",
                                      !.files = Readdir(fs', Top.src)]>>
                        \o Tail(stack))
       ELSE fs' = fs /\ Throw
    /\ UNCHANGED <<fs0, faulty, args, run, resCopy, others>>

\* lines 56-57: the recursive call for the next entry, in the order readdir
\* gave
copy_Loop ==
    /\ run = "copy" /\ Running
    /\ Top.pc = "loop"
    /\ Top.files # <<>>
    /\ Enter(Join(Top.src, Head(Top.files)), Join(Top.dest, Head(Top.files)),
             ChildOptions(Top.overwrite),
             <<[Top EXCEPT !.files = Tail(Top.files)]>> \o Tail(stack))
    /\ UNCHANGED <<fs, fs0, faulty, args, run, resCopy, others>>

\* ------------------------------------------------ copySync (blocking)
\* copySync blocks: the whole recursion is one step of the program.  The
\* result is the filesystem it leaves and whether it threw.

\* fs.rmSync(dest, { recursive: true }): the whole tree at dest is gone
RmTree(f, p) ==
    Touch([q \in Paths |-> IF IsUnder(q, p) THEN Absent ELSE f[q]], p)

Returned(f) == [fs |-> f, threw |-> FALSE]
Threw(f)    == [fs |-> f, threw |-> TRUE]

RECURSIVE copySync(_, _, _, _)
RECURSIVE copySync_Each(_, _, _, _, _)

\* lines 102-104: for (const file of files) copySync(join(src, file), ...)
copySync_Each(f, src, dest, opt, files) ==
    IF files = <<>> THEN Returned(f)
    ELSE LET r == copySync(f, Join(src, Head(files)), Join(dest, Head(files)),
                           ChildOptions(opt))
         IN  IF r.threw THEN r
             ELSE copySync_Each(r.fs, src, dest, opt, Tail(files))

\* lines 89: fs.copyFileSync(src, dest)
copySync_File(f, src, dest) ==
    IF CopyFileOk(f, src, dest) THEN Returned(CopyFileTo(f, src, dest))
    ELSE Threw(f)

\* lines 100-104: mkdirSync, readdirSync and the loop over the entries
copySync_Dir(f, src, dest, opt) ==
    IF MkdirOk(f, dest)
    THEN LET g == Mkdir(f, dest)
         IN  copySync_Each(g, src, dest, opt, Readdir(g, src))
    ELSE Threw(f)

\* lines 67-106
copySync(f, src, dest, opt) ==
    IF StatFails(f, src) \/ copySync_destThrows(f, dest) THEN Threw(f)
    ELSE
      LET srcStat  == f[src]
          destStat == copySync_destStat(f, dest)
          next     == Branch(srcStat, destStat,
                             Overwrite(opt, srcStat, destStat))
      IN  CASE next = "return"   -> Returned(f)
            [] next = "rm"       -> copySync_File(RmTree(f, dest), src, dest)
            [] next = "copyFile" -> copySync_File(f, src, dest)
            [] next = "unlink"   ->
                  IF UnlinkOk(f, dest)
                  THEN copySync_Dir(Unlink(f, dest), src, dest, opt)
                  ELSE Threw(f)
            [] next = "mkdir"    -> copySync_Dir(f, src, dest, opt)

\* the caller invokes copySync with the same arguments on the filesystem
\* that copy was given; the outcome of copy is kept for the comparison
CallSync ==
    /\ run = "copy"
    /\ status \in {"ok", "error"}
    /\ resCopy' = [status |-> status, fs |-> fs]
    /\ LET r == copySync(fs0, args.src, args.dest, args.overwrite)
       IN  /\ fs' = r.fs
           /\ status' = IF r.threw THEN "error" ELSE "ok"
    /\ run' = "copySync"
    /\ stack' = <<>>
    /\ UNCHANGED <<fs0, faulty, args, others>>

Next ==
    \/ Call
    \/ copy_Rm
    \/ copy_CopyFile
    \/ copy_Unlink
    \/ copy_Mkdir
    \/ copy_Loop
    \/ CallSync

Spec == Init /\ [][Next]_vars

\* the same program on a filesystem where the inspection of the destination
\* may fail for a reason other than absence (an I/O failure of the lookup;
\* the calls that follow are not affected)
InitFault ==
    /\ fs \in FileSystems
    /\ fs0 = fs
    /\ faulty \in {{}, {DestRoot}}
    /\ args = NoArgs
    /\ run = "none"
    /\ status = "idle"
    /\ stack = <<>>
    /\ resCopy = NoResult
    /\ Idle

SpecFault == InitFault /\ [][Next]_vars

\* ------------------------------------------------ collectFiles
\* A filter is a function of the entry path to a boolean: it is given by
\* the paths it accepts.  NoFilter is a call without the second argument.
NoFilter == [given |-> FALSE, accepts |-> {}]

Accepting(S) == [given |-> TRUE, accepts |-> S]

\* the filters of the calls explored: everything, nothing, a test of the
\* entry's name and a test that only the deepest paths pass (so that it
\* rejects the path of every directory that holds an accepted file)
Filters ==
    {NoFilter, Accepting(Paths), Accepting({}),
     Accepting({p \in Paths : p[Len(p)] = "a"}),
     Accepting({p \in Paths : Len(p) = MaxDepth + 1})}

\* the directories the calls explored are given
CollectRoots == {SrcRoot, Join(SrcRoot, "a")}

\* line 144: !filter || filter(entryPath)
Keep(filter, entryPath) == ~filter.given \/ entryPath \in filter.accepts

\* the array built so far, and whether the promise was rejected
Collected(acc) == [entries |-> acc, threw |-> FALSE]
Rejected(acc)  == [entries |-> acc, threw |-> TRUE]

RECURSIVE collect(_, _, _, _)
RECURSIVE collect_Each(_, _, _, _, _)

\* the filter decides for a directory as it does for a file: a directory
\* whose path it rejects is not scanned
collect_Entry_Pruning(f, filter, entryPath, acc) ==
    IF ~Keep(filter, entryPath) THEN Collected(acc)
    ELSE IF Node(f, entryPath).kind = "dir"
         THEN collect(f, entryPath, filter, acc)
         ELSE Collected(Append(acc, entryPath))

\* lines 140-145: a directory is scanned, any other entry is pushed when
\* there is no filter or the filter accepts its path
collect_Entry(f, filter, entryPath, acc) ==
    IF Node(f, entryPath).kind = "dir"
    THEN collect(f, entryPath, filter, acc)
    ELSE IF Keep(filter, entryPath)
         THEN Collected(Append(acc, entryPath))
         ELSE Collected(acc)

\* lines 139-146: for (const entry of dirEntries), in the order listed
collect_Each(f, dir, filter, names, acc) ==
    IF names = <<>> THEN Collected(acc)
    ELSE LET r == collect_Entry(f, filter, Join(dir, Head(names)), acc)
         IN  IF r.threw THEN r
             ELSE collect_Each(f, dir, filter, Tail(names), r.entries)

\* lines 136-147: readdir fails on a path that is not a directory
collect(f, dir, filter, acc) ==
    IF Node(f, dir).kind # "dir" THEN Rejected(acc)
    ELSE collect_Each(f, dir, filter, Readdir(f, dir), acc)

\* lines 133-152
collectFiles(f, dir, filter) == collect(f, dir, filter, <<>>)

\* the caller invokes collectFiles(dir, filter) and awaits the array
CallCollect ==
    /\ run = "none"
    /\ \E d \in CollectRoots, flt \in Filters :
          /\ args' = [dir |-> d, filter |-> flt]
          /\ LET r == collectFiles(fs, d, flt)
             IN  /\ entries' = IF r.threw THEN <<>> ELSE r.entries
                 /\ status' = IF r.threw THEN "error" ELSE "ok"
    /\ run' = "collectFiles"
    /\ UNCHANGED <<fs, fs0, faulty, stack, resCopy, pending, merged, ended>>

NextCollect == CallCollect

SpecCollect == Init /\ [][NextCollect]_vars

\* ------------------------------------------------ mergeStreams
\* A finite readable stream is the sequence of chunks it emits before it
\* ends; the stream returned is what was written to it and whether it was
\* ended.
Chunks == {"foo", "bar"}

RECURSIVE SeqsUpTo(_, _)
SeqsUpTo(S, n) ==
    IF n = 0 THEN {<<>>}
    ELSE SeqsUpTo(S, n - 1)
         \cup {Append(q, x) : q \in SeqsUpTo(S, n - 1), x \in S}

Streams == SeqsUpTo(Chunks, MaxChunks)

\* the argument lists: zero, one or more streams
StreamLists == SeqsUpTo(Streams, MaxStreams)

\* line 238: the stream the outer loop is at; ended counts the ones before
Current == ended + 1

InLoop ==
    /\ run = "mergeStreams"
    /\ status = "running"
    /\ Current <= Len(pending)

\* lines 234-237: the call makes the stream it will return
CallMerge ==
    /\ run = "none"
    /\ \E ins \in StreamLists :
          /\ args' = [streams |-> ins]
          /\ pending' = ins
    /\ merged' = NewStream
    /\ ended' = 0
    /\ run' = "mergeStreams"
    /\ status' = "running"
    /\ UNCHANGED <<fs, fs0, faulty, stack, resCopy, entries>>

\* lines 239-240: for await (const data of stream) merged.write(data)
merge_Write ==
    /\ InLoop
    /\ pending[Current] # <<>>
    /\ merged' = [merged EXCEPT
                    !.chunks = Append(@, Head(pending[Current]))]
    /\ pending' = [pending EXCEPT ![Current] = Tail(@)]
    /\ UNCHANGED <<fs, fs0, faulty, args, run, status, stack, resCopy,
                   entries, ended>>

\* lines 242-245: the stream has ended; after the last one merged.end()
merge_Ended ==
    /\ InLoop
    /\ pending[Current] = <<>>
    /\ ended' = ended + 1
    /\ merged' = IF ended' = Len(args.streams)
                 THEN [merged EXCEPT !.ended = TRUE]
                 ELSE merged
    /\ UNCHANGED <<fs, fs0, faulty, args, run, status, stack, resCopy,
                   entries, pending>>

\* line 248: after the loop, return merged
merge_Return ==
    /\ run = "mergeStreams"
    /\ status = "running"
    /\ Current > Len(pending)
    /\ status' = "ok"
    /\ UNCHANGED <<fs, fs0, faulty, args, run, stack, resCopy, others>>

NextMerge ==
    \/ CallMerge
    \/ merge_Write
    \/ merge_Ended
    \/ merge_Return

\* mergeStreams does not touch the filesystem
InitMerge ==
    /\ fs = EmptyFs
    /\ fs0 = EmptyFs
    /\ faulty = {}
    /\ args = NoArgs
    /\ run = "none"
    /\ status = "idle"
    /\ stack = <<>>
    /\ resCopy = NoResult
    /\ Idle

SpecMerge == InitMerge /\ [][NextMerge]_vars

\* ------------------------------------------------ related paths
\* copy and copySync take any two paths.  The pairs explored: the
\* destination inside the source directory, the source inside the
\* destination, one path twice, two entries of one directory, and two
\* unrelated paths.  A path longer than the paths modelled cannot be
\* created: mkdir and copyFile fail on it, as they do on a path beyond
\* the length the filesystem accepts.
ArgPairs ==
    {<<SrcRoot, Join(SrcRoot, "a")>>,
     <<Join(SrcRoot, "a"), SrcRoot>>,
     <<SrcRoot, SrcRoot>>,
     <<Join(SrcRoot, "a"), Join(SrcRoot, "b")>>,
     <<SrcRoot, DestRoot>>}

\* the caller invokes copy(src, dest, options) with one of these pairs
CallRelated ==
    /\ run = "none"
    /\ \E pair \in ArgPairs, o \in Policies :
          /\ args' = [src |-> pair[1], dest |-> pair[2], overwrite |-> o]
          /\ Enter(pair[1], pair[2], o, <<>>)
    /\ run' = "copy"
    /\ UNCHANGED <<fs, fs0, faulty, resCopy, others>>

NextRelated ==
    \/ CallRelated
    \/ copy_Rm
    \/ copy_CopyFile
    \/ copy_Unlink
    \/ copy_Mkdir
    \/ copy_Loop
    \/ CallSync

SpecRelated == Init /\ [][NextRelated]_vars

TypeOK ==
    /\ fs \in [Paths -> RootNodes \cup NestedNodes \cup {Absent, Dir(Now)}
                          \cup {File(d, Now) : d \in Contents}]
    /\ run \in {"none", "copy", "copySync", "collectFiles", "mergeStreams"}
    /\ status \in {"idle", "running", "ok", "error"}
    /\ \A p \in Paths :
          fs[p].kind # "absent" => (IsRoot(p) \/ fs[Parent(p)].kind = "dir")

\* ================================================================ claims
\* A call is over when it has returned ("ok") or thrown ("error"); fs is
\* then the filesystem it leaves and fs0 the one it was given.  The state
\* after copy and the state after copySync both count.
Done     == status \in {"ok", "error"}
Returns  == status = "ok"
Src      == args.src
Dest     == args.dest
Policy   == args.overwrite

\* the destination path of a source path, and back
DestOf(p) == Dest \o SubSeq(p, Len(Src) + 1, Len(p))
SrcOf(q)  == Src \o SubSeq(q, Len(Dest) + 1, Len(q))

Below(p, root) == IsUnder(p, root) /\ p # root

SameBytes(f, q, p) == f[q].kind = "file" /\ f[q].data = fs0[p].data

\* C1: with overwrite 'always', src a directory and dest an existing
\* directory, every file under src whose destination path was a file has
\* its bytes at the destination after the call.
C1_PolicyGovernsWalk ==
    (/\ Returns
     /\ Policy = "always"
     /\ fs0[Src].kind = "dir"
     /\ fs0[Dest].kind = "dir")
    => \A p \in Paths :
          (/\ Below(p, Src)
           /\ fs0[p].kind = "file"
           /\ fs0[DestOf(p)].kind = "file")
          => SameBytes(fs, DestOf(p), p)

\* C2: with the destination absent, under every policy, a call that returns
\* leaves at the destination the tree of the source: the same paths with the
\* same kinds, every file with the bytes of its source.
C2_AbsentDestGetsTree ==
    (/\ Returns
     /\ fs0[Dest].kind = "absent")
    => \A p \in Paths :
          IsUnder(p, Src)
          => /\ fs[DestOf(p)].kind = fs0[p].kind
             /\ fs[DestOf(p)].data = fs0[p].data
             /\ fs[p] = fs0[p]

C2_Witness ==
    /\ Returns
    /\ run = "copySync"
    /\ resCopy.status = "ok"
    /\ Policy = "never"
    /\ fs0[Dest].kind = "absent"
    /\ \E p \in Paths :
          /\ Len(p) = 3
          /\ IsUnder(p, Src)
          /\ fs0[p].kind = "file"
          /\ SameBytes(fs, DestOf(p), p)
          /\ SameBytes(resCopy.fs, DestOf(p), p)

\* C3: source and destination both files, policy 'always' or true: the call
\* returns and the destination holds the bytes of the source, whatever it
\* held and whatever the two times.
C3_AlwaysOverwritesFile ==
    (/\ Done
     /\ Policy \in {"always", "true"}
     /\ fs0[Src].kind = "file"
     /\ fs0[Dest].kind = "file")
    => /\ Returns
       /\ SameBytes(fs, Dest, Src)

C3_Witness ==
    /\ Returns
    /\ Policy = "true"
    /\ fs0[Src].kind = "file"
    /\ fs0[Dest].kind = "file"
    /\ fs0[Dest].data # fs0[Src].data
    /\ fs0[Dest].mtime > fs0[Src].mtime
    /\ SameBytes(fs, Dest, Src)

C5_NewerIsStrict ==
    (/\ Done
     /\ Policy = "newer"
     /\ fs0[Src].kind = "file"
     /\ fs0[Dest].kind = "file")
    => /\ Returns
       /\ IF fs0[Src].mtime > fs0[Dest].mtime
          THEN fs[Dest] = File(fs0[Src].data, Now)
          ELSE fs = fs0

C5_Witness ==
    /\ Returns
    /\ Policy = "newer"
    /\ fs0[Src].kind = "file"
    /\ fs0[Dest].kind = "file"
    /\ fs0[Src].mtime > fs0[Dest].mtime
    /\ fs0[Src].data # fs0[Dest].data
    /\ fs[Dest] = File(fs0[Src].data, Now)

\* C6: source a file, destination a directory, policy 'always': the call
\* returns, the destination is a file with the bytes of the source and no
\* path of the former directory exists; and copy starts the copy of the
\* file only when nothing of the directory is left.
C6_DirectoryReplacedByFile ==
    /\ (/\ Done
        /\ Policy = "always"
        /\ fs0[Src].kind = "file"
        /\ fs0[Dest].kind = "dir")
       => /\ Returns
          /\ SameBytes(fs, Dest, Src)
          /\ \A q \in Paths : Below(q, Dest) => fs[q].kind = "absent"
    /\ (/\ Running
        /\ Top.pc = "copyFile"
        /\ Top.destStat.kind = "dir")
       => \A q \in Paths : IsUnder(q, Top.dest) => fs[q].kind = "absent"

C6_Witness ==
    /\ Returns
    /\ run = "copy"
    /\ Policy = "always"
    /\ fs0[Src].kind = "file"
    /\ fs0[Dest].kind = "dir"
    /\ \E q \in Paths : Len(q) = 3 /\ Below(q, Dest) /\ fs0[q].kind = "file"
    /\ SameBytes(fs, Dest, Src)

\* C7: a call without options, as documented: a file at dest where src is a
\* directory is replaced by the directory, a directory at dest where src is
\* a file is replaced by the file.
C7_DocumentedDefault ==
    (/\ Done
     /\ Policy = "none")
    => /\ (fs0[Src].kind = "dir" /\ fs0[Dest].kind = "file")
          => (Returns /\ fs[Dest].kind = "dir")
       /\ (fs0[Src].kind = "file" /\ fs0[Dest].kind = "dir")
          => (Returns /\ SameBytes(fs, Dest, Src))

NoFileInTheWay(p) ==
    \A a \in Paths :
        (Below(a, Src) /\ Below(p, a)) => fs0[DestOf(a)].kind # "file"

C9_AbsentSourceFails ==
    (/\ Done
     /\ fs0[Src].kind = "absent")
    => /\ status = "error"
       /\ fs = fs0

C9_Witness ==
    /\ status = "error"
    /\ run = "copySync"
    /\ resCopy.status = "error"
    /\ Policy = "always"
    /\ fs0[Src].kind = "absent"
    /\ fs0[Dest].kind = "dir"

\* C10: copySync ends as copy does on the same filesystem with the same
\* arguments: the same outcome and the same final filesystem.
C10_SyncSameAsAsync ==
    (run = "copySync" /\ Done)
    => /\ resCopy.status = status
       /\ resCopy.fs = fs

\* C11: when the inspection of the destination fails for a reason other
\* than absence, copy fails with that error and has written nothing: it
\* does not carry on as if the destination were absent.
C11_InspectionFailurePropagates ==
    (/\ run = "copy"
     /\ Done
     /\ Dest \in faulty)
    => /\ status = "error"
       /\ fs = fs0

\* The listing of a directory: collectFiles has resolved with entries.
Listed == run = "collectFiles" /\ status = "ok"

FilesUnder(root) == {p \in Paths : Below(p, root) /\ fs[p].kind = "file"}

\* C12: collectFiles(root, filter) resolves with the paths of the files at
\* any depth under root that the filter accepts (all without a filter),
\* each once: without a filter as many entries as there are files, never
\* the path of a directory, and a directory is scanned whatever the
\* filter says of its path.
C12_ListsAcceptedFilesOnce ==
    Listed =>
       /\ \A i, j \in DOMAIN entries : entries[i] = entries[j] => i = j
       /\ {entries[i] : i \in DOMAIN entries}
             = {p \in FilesUnder(args.dir) : Keep(args.filter, p)}
       /\ \A i \in DOMAIN entries : Node(fs, entries[i]).kind # "dir"
       /\ ~args.filter.given
             => Len(entries) = Cardinality(FilesUnder(args.dir))

\* a file listed from inside a directory whose path the filter rejects,
\* beside a file the filter leaves out
C12_Witness ==
    /\ Listed
    /\ args.filter.given
    /\ \E q \in Paths, i \in DOMAIN entries :
          /\ Below(q, args.dir)
          /\ fs[q].kind = "dir"
          /\ ~Keep(args.filter, q)
          /\ Below(entries[i], q)
    /\ \E p \in FilesUnder(args.dir) : ~Keep(args.filter, p)

\* the chunks of the streams, one stream after the other
RECURSIVE Concat(_)
Concat(ss) == IF ss = <<>> THEN <<>> ELSE Head(ss) \o Concat(Tail(ss))

IsPrefix(a, b) == Len(a) <= Len(b) /\ SubSeq(b, 1, Len(a)) = a

Merging == run = "mergeStreams"

\* C13: for zero, one or more finite input streams, the stream that
\* mergeStreams returns carries every chunk of every input once, the
\* chunks of one input in their order and before those of the next, and
\* is then ended: what is written is at all times the beginning of the
\* concatenation, and when the call returns it is all of it and the
\* stream has been ended.
C13_MergedIsConcatenationThenEnds ==
    Merging =>
       /\ IsPrefix(merged.chunks, Concat(args.streams))
       /\ status = "ok" => /\ merged.chunks = Concat(args.streams)
                           /\ merged.ended

\* C14: a call of copy on a finite filesystem ends after visiting each
\* entry of the source tree once, however src and dest are related: every
\* invocation of the recursion is for an entry that the source tree had
\* when the call was made, so that the entries of that tree bound the
\* work.
C14_VisitsSourceEntriesOnly ==
    (run = "copy" /\ Running)
    => \A i \in DOMAIN stack :
          /\ IsUnder(stack[i].src, Src)
          /\ Node(fs0, stack[i].src).kind # "absent"

====
